---- MODULE Spec2Model ----
(***************************************************************************)
(* A model of py/kubeflow/tf_operator/tf_job_client.py: the polling loops  *)
(* wait_for_condition and wait_for_delete, and the restart verifier        *)
(* terminate_and_verify_start_time with the helpers it calls.              *)
(*                                                                         *)
(* Time is counted in milliseconds.  A datetime.timedelta is its total     *)
(* length in milliseconds; a datetime.datetime is the number of            *)
(* milliseconds since the call started.                                    *)
(*                                                                         *)
(* One call runs per behaviour: Init is the state before the call, a Call* *)
(* action draws the arguments, and the steps of the called routine follow  *)
(* until pc = "done".  The blocking points of a routine (a fetch, a sleep, *)
(* a wait on the cluster, a send) separate its steps.                      *)
(***************************************************************************)
EXTENDS Integers, Sequences, FiniteSets, TLC

VARIABLES
  fn,                 \* the routine that was called ("idle" before the call)
  pc,                 \* the position inside the routine
  now,                \* datetime.datetime.now()
  end_time,           \* local end_time of the polling loops
  timeout,            \* argument timeout (timedelta)
  polling_interval,   \* argument polling_interval (timedelta)
  expected_condition, \* argument expected_condition
  status_callback,    \* TRUE iff a status_callback was supplied
  results,            \* local results
  outcome,            \* how the call ended: "none" while it runs
  retval,             \* the value returned (outcome = "returned")
  errStatus,          \* the status carried by the raised timeout error
  lastFetch,          \* history: kind and value of the most recent fetch
  lastObserved,       \* history: the most recent fetched value that was data
  nFetch,             \* history: number of fetches (saturates at MaxCount)
  nSleep,             \* history: number of sleeps (saturates at MaxCount)
  nCb,                \* history: number of callback invocations (saturates)
  lastCbArg,          \* history: the argument of the last callback invocation
  lastSleep,          \* history: the duration handed to the last time.sleep
  args,               \* the arguments of terminate_and_verify_start_time
  first_start_time,   \* local first_start_time
  restart_time,       \* local restart_time
  passed,             \* the boolean returned (outcome = "returned")
  tr,                 \* the arguments of the running terminate_replicas
  num,                \* terminate_replicas' loop variable num
  attempt_start,      \* the retry loop's start_time of the running send
  waited,             \* history: the waits on pod phases, in order
  lookups,            \* history: the start-time lookups, in order
  sent,               \* history: the exit requests delivered, in order
  nAttempts,          \* history: send attempts of the running terminate_replica
  failedStep,         \* history: the sub-step that raised ("none" if none)
  callback_raises,    \* TRUE iff the supplied status_callback raises
  pure_args,          \* the arguments of the called helper function
  pure_result,        \* the value the called helper function returned
  pod                 \* the cluster's pod that the verifier addresses

tvVars == <<args, first_start_time, restart_time, passed, tr, num,
            attempt_start, waited, lookups, sent, nAttempts, failedStep>>

pollVars == <<end_time, timeout, polling_interval, expected_condition,
              status_callback, results, retval, errStatus, lastFetch,
              lastObserved, nFetch, nSleep, nCb, lastCbArg, lastSleep>>

auxVars == <<callback_raises, pure_args, pure_result, pod>>

(***************************************************************************)
(* Bounds of the model.                                                    *)
(***************************************************************************)
\* longest condition sequence of a fetched status
MaxConds == 2
\* the history counters nFetch, nSleep, nCb stop counting here
MaxCount == 3
\* the short timeouts are 0..MaxTimeoutSecs whole seconds
MaxTimeoutSecs == 2
\* largest declared 'replicas' count of a replica-type entry
MaxReplicas == 3
\* largest number of create events of one kind
MaxEvents == 4

(***************************************************************************)
(* Program constants and the values the program handles.                   *)
(***************************************************************************)
\* How long to wait in seconds for requests to the ApiServer
TIMEOUT == 120

\* datetime.timedelta(seconds=s), datetime.timedelta(days=1)
Seconds(s) == s * 1000
DayMs == 24 * 60 * 60 * 1000

\* timedelta.seconds: the seconds field of the normalised (days, seconds,
\* microseconds) triple, 0 <= seconds < 86400; days and the sub-second part
\* are separate fields and are not part of it.
TimedeltaSeconds(td) == (td \div 1000) % (24 * 60 * 60)

\* Python's None, and a fetched TFJob.  st tells how far the status is set:
\*   "nostatus" no "status" key; "nokey" a status without "conditions";
\*   "none" "conditions": None; "list" a list of conditions (conds).
None == [tag |-> "None", st |-> "nostatus", conds |-> <<>>]
Job(st, conds) == [tag |-> "job", st |-> st, conds |-> conds]

\* A condition is known by its "type"; NoTypeKey is a condition without one.
NoTypeKey == "<no type key>"
CondTypes == {"Running", "Succeeded", NoTypeKey}

SeqsUpTo(S, n) == UNION {[1..k -> S] : k \in 0..n}

Jobs == {Job("nostatus", <<>>), Job("nokey", <<>>), Job("none", <<>>)}
          \cup {Job("list", cs) : cs \in SeqsUpTo(CondTypes, MaxConds)}

\* min(n + 1, MaxCount): the history counters
Bump(n) == IF n < MaxCount THEN n + 1 ELSE n

(***************************************************************************)
(* The arguments the calls are made with.                                  *)
(***************************************************************************)
ShortTimeouts == {Seconds(s) : s \in 0..MaxTimeoutSecs}
Intervals == {100, Seconds(1), 1500, Seconds(2), DayMs, DayMs + Seconds(1)}
\* (timeout, polling_interval): every short timeout with every interval,
\* and a timeout of more than a day with the intervals of a day or more
\* and a timeout that leaves room for a sleep after a fetch that timed out
Configs == (ShortTimeouts \X Intervals)
             \cup ({DayMs + Seconds(2)} \X {DayMs, DayMs + Seconds(1)})
             \cup {<<Seconds(2 * TIMEOUT + 1), Seconds(TIMEOUT)>>}
\* wait_for_job's ["Succeeded", "Failed"]
ExpectedSets == {{"Succeeded", "Failed"}}
\* how long a fetch that answers takes
FetchLatencies == {0, 500}

(***************************************************************************)
(* wait_for_condition                                                      *)
(***************************************************************************)
\* c.get("type", "")
TypeOf(c) == IF c = NoTypeKey THEN "" ELSE c

\* conditions = results.get("status", {}).get("conditions", []);
\* conditions = conditions or []
Conditions(res) == IF res.st = "list" THEN res.conds ELSE <<>>

\* a scan that takes any condition for a match
HasAnyCondition(res, expected) == Len(Conditions(res)) > 0

\* for c in conditions: if c.get("type", "") in expected_condition
HasMatch(res, expected) ==
  \E i \in 1..Len(Conditions(res)) : TypeOf(Conditions(res)[i]) \in expected

\* if results:
Truthy(res) == res.tag = "job"

\* a deadline check with >= for >
DeadlineReached(t, interval, end) == t + interval >= end

\* a check of the clock alone: now > end_time
DeadlinePassed(t, interval, end) == t > end

\* datetime.datetime.now() + polling_interval > end_time
DeadlineExceeded(t, interval, end) == t + interval > end

(***************************************************************************)
(* Labels and selectors                                                    *)
(***************************************************************************)
TF_JOB_NAME_LABEL == "job-name"

\* the name argument: the TFJob's name
JobName == "mnist"

\* an optional replica_index argument: None, or an integer
NoIndex == [given |-> FALSE, val |-> 0]
Index(i) == [given |-> TRUE, val |-> i]

\* str.lower, on the replica types the calls are made with and on the
\* condition types of the fetched jobs
Lower(s) ==
  CASE s = "PS" -> "ps"
    [] s = "Worker" -> "worker"
    [] s = "Chief" -> "chief"
    [] s = "Running" -> "running"
    [] s = "Succeeded" -> "succeeded"
    [] s = "SUCCEEDED" -> "succeeded"
    [] OTHER -> s

\* a label value: a str, or an int (the replica_index)
PyStr(s) == [type |-> "str", str |-> s, int |-> 0]
PyInt(n) == [type |-> "int", str |-> "", int |-> n]

\* a dict that has the "replica-index" label for every index that is given
GetLabelsForEveryIndex(name, replica_type, replica_index) ==
  <<<<"group-name", PyStr("kubeflow.org")>>,
    <<TF_JOB_NAME_LABEL, PyStr(name)>>>>
    \o (IF replica_type # ""
          THEN <<<<"replica-type", PyStr(Lower(replica_type))>>>>
          ELSE <<>>)
    \o (IF replica_index.given
          THEN <<<<"replica-index", PyInt(replica_index.val)>>>>
          ELSE <<>>)

\* get_labels: the dict as the sequence of its (key, value) items in insertion
\* order.  replica_type "" stands for a replica_type that is None or empty;
\* "if replica_index:" is false of None and of 0.
get_labels(name, replica_type, replica_index) ==
  <<<<"group-name", PyStr("kubeflow.org")>>,
    <<TF_JOB_NAME_LABEL, PyStr(name)>>>>
    \o (IF replica_type # ""
          THEN <<<<"replica-type", PyStr(Lower(replica_type))>>>>
          ELSE <<>>)
    \o (IF replica_index.given /\ replica_index.val # 0
          THEN <<<<"replica-index", PyInt(replica_index.val)>>>>
          ELSE <<>>)

\* "{1}".format(v): a str as it is, an int in decimal digits
Format(v) ==
  IF v.type = "int"
    THEN <<"0", "1", "2", "3", "4", "5", "6", "7", "8", "9">>[v.int + 1]
    ELSE v.str

\* to_selector: "k=v" for every item, joined by commas.  A part
\* [key |-> k, value |-> t] stands for the text "k=t", and the sequence of the
\* parts for the parts joined by ",".
to_selector(labels) ==
  [i \in 1..Len(labels) |->
     [key |-> labels[i][1], value |-> Format(labels[i][2])]]

\* the pod_selector of wait_for_replica_type_in_phases, terminate_replicas and
\* get_start_time_by_index: to_selector(get_labels(name, replica_type))
ReplicaSelector(name, replica_type) ==
  to_selector(get_labels(name, replica_type, NoIndex))

(***************************************************************************)
(* The restart verifier's values                                           *)
(***************************************************************************)
\* the largest pod start time the cluster reports
MaxStartTime == 2
\* the largest num_targets terminate_replicas is called with
MaxTargets == 2
\* the largest replica_index
MaxIndex == 1

StartTimes == 0..MaxStartTime
ReplicaTypes == {"chief", "worker", "ps", "Worker", "PS"}
ExitCodes == {0, 1}
\* how long one send of the exit request takes
SendLatencies == {0, 20}

\* @retrying.retry(wait_fixed=10, stop_max_delay=60): milliseconds
WAIT_FIXED == 10
STOP_MAX_DELAY == 60

NoArgs == [replica_type |-> "", replica_index |-> 0, exit_code |-> 0,
           expect_restart |-> FALSE]
NoTr == [replica |-> "", num_targets |-> 0, exit_code |-> 0]
NoPure == [tag |-> "none"]
NoPod == [phase |-> "none", start_time |-> 0, restarts |-> 0]

Init ==
  /\ fn = "idle"
  /\ pc = "idle"
  /\ now = 0
  /\ end_time = 0
  /\ timeout = 0
  /\ polling_interval = 0
  /\ expected_condition = {}
  /\ status_callback = FALSE
  /\ results = None
  /\ outcome = "none"
  /\ retval = None
  /\ errStatus = None
  /\ lastFetch = [kind |-> "none", value |-> None, status |-> 0]
  /\ lastObserved = None
  /\ nFetch = 0
  /\ nSleep = 0
  /\ nCb = 0
  /\ lastCbArg = None
  /\ lastSleep = 0
  /\ args = NoArgs
  /\ first_start_time = 0
  /\ restart_time = 0
  /\ passed = FALSE
  /\ tr = NoTr
  /\ num = 0
  /\ attempt_start = 0
  /\ waited = <<>>
  /\ lookups = <<>>
  /\ sent = <<>>
  /\ nAttempts = 0
  /\ failedStep = "none"
  /\ callback_raises = FALSE
  /\ pure_args = NoPure
  /\ pure_result = NoPure
  /\ pod = NoPod

\* an exception of a called function is not caught: it ends the call
Raise(error) == outcome' = error /\ pc' = "done"

\* the call: end_time = datetime.datetime.now() + timeout
CallWaitForCondition ==
  /\ pc = "idle"
  /\ \E cfg \in Configs, exp \in ExpectedSets, cb \in BOOLEAN :
       /\ timeout' = cfg[1]
       /\ polling_interval' = cfg[2]
       /\ expected_condition' = exp
       /\ status_callback' = cb
       /\ end_time' = now + cfg[1]
  /\ fn' = "wait_for_condition"
  /\ pc' = "fetch"
  /\ UNCHANGED tvVars
  /\ UNCHANGED auxVars
  /\ UNCHANGED <<now, results, outcome, retval, errStatus, lastFetch,
                 lastObserved, nFetch, nSleep, nCb, lastCbArg, lastSleep>>

\* the call, made with no callback, with one that returns, or with one that
\* raises
CallWaitForConditionAnyCallback ==
  /\ pc = "idle"
  /\ \E cfg \in Configs, exp \in ExpectedSets, cb \in BOOLEAN,
        raises \in BOOLEAN :
       /\ raises => cb
       /\ timeout' = cfg[1]
       /\ polling_interval' = cfg[2]
       /\ expected_condition' = exp
       /\ status_callback' = cb
       /\ callback_raises' = raises
       /\ end_time' = now + cfg[1]
  /\ fn' = "wait_for_condition"
  /\ pc' = "fetch"
  /\ UNCHANGED tvVars
  /\ UNCHANGED <<pure_args, pure_result, pod>>
  /\ UNCHANGED <<now, results, outcome, retval, errStatus, lastFetch,
                 lastObserved, nFetch, nSleep, nCb, lastCbArg, lastSleep>>

\* results = None; results = thread.get(TIMEOUT) answers with a TFJob
WfcFetchData ==
  /\ fn = "wait_for_condition" /\ pc = "fetch"
  /\ \E job \in Jobs, d \in FetchLatencies :
       /\ results' = job
       /\ now' = now + d
       /\ lastFetch' = [kind |-> "data", value |-> job, status |-> 0]
       /\ lastObserved' = job
  /\ nFetch' = Bump(nFetch)
  /\ pc' = "poll"
  /\ UNCHANGED tvVars
  /\ UNCHANGED auxVars
  /\ UNCHANGED <<fn, end_time, timeout, polling_interval, expected_condition,
                 status_callback, outcome, retval, errStatus, nSleep, nCb,
                 lastCbArg, lastSleep>>

\* a fetch without the per-call timeout: thread.get() never comes back
WfcFetchBlocks ==
  /\ fn = "wait_for_condition" /\ pc = "fetch"
  /\ pc' = "blocked"
  /\ UNCHANGED <<fn, outcome, now, pollVars, tvVars, auxVars>>

\* a fetch that timed out and leaves the results of the round before in place
WfcFetchTimeoutKeepsResults ==
  /\ fn = "wait_for_condition" /\ pc = "fetch"
  /\ now' = now + Seconds(TIMEOUT)
  /\ lastFetch' = [kind |-> "timeout", value |-> None, status |-> 0]
  /\ nFetch' = Bump(nFetch)
  /\ pc' = "poll"
  /\ UNCHANGED tvVars
  /\ UNCHANGED auxVars
  /\ UNCHANGED <<fn, end_time, timeout, polling_interval, expected_condition,
                 status_callback, results, outcome, retval, errStatus,
                 lastObserved, nSleep, nCb, lastCbArg, lastSleep>>

\* results = None; thread.get(TIMEOUT) raises multiprocessing.TimeoutError
\* after TIMEOUT seconds: logged, results stays None
WfcFetchTimeout ==
  /\ fn = "wait_for_condition" /\ pc = "fetch"
  /\ results' = None
  /\ now' = now + Seconds(TIMEOUT)
  /\ lastFetch' = [kind |-> "timeout", value |-> None, status |-> 0]
  /\ nFetch' = Bump(nFetch)
  /\ pc' = "poll"
  /\ UNCHANGED tvVars
  /\ UNCHANGED auxVars
  /\ UNCHANGED <<fn, end_time, timeout, polling_interval, expected_condition,
                 status_callback, outcome, retval, errStatus, lastObserved,
                 nSleep, nCb, lastCbArg, lastSleep>>

\* thread.get(TIMEOUT) raises any other exception: logged and re-raised
WfcFetchError ==
  /\ fn = "wait_for_condition" /\ pc = "fetch"
  /\ results' = None
  /\ lastFetch' = [kind |-> "error", value |-> None, status |-> 0]
  /\ nFetch' = Bump(nFetch)
  /\ outcome' = "FetchError"
  /\ pc' = "done"
  /\ UNCHANGED tvVars
  /\ UNCHANGED auxVars
  /\ UNCHANGED <<fn, now, end_time, timeout, polling_interval,
                 expected_condition, status_callback, retval, errStatus,
                 lastObserved, nSleep, nCb, lastCbArg, lastSleep>>

\* a callback that is invoked after every fetch, data or not
WfcCallbackAfterEveryFetch ==
  IF status_callback
    THEN nCb' = Bump(nCb) /\ lastCbArg' = results
    ELSE UNCHANGED <<nCb, lastCbArg>>

\* if results: if status_callback: status_callback(results)
WfcCallback ==
  IF Truthy(results) /\ status_callback
    THEN nCb' = Bump(nCb) /\ lastCbArg' = results
    ELSE UNCHANGED <<nCb, lastCbArg>>

\* the invoked callback raises: nothing around the call catches it
CallbackRaises == Truthy(results) /\ status_callback /\ callback_raises

\* an iteration that checks the deadline before it scans the conditions
WfcPollDeadlineFirst ==
  /\ fn = "wait_for_condition" /\ pc = "poll"
  /\ WfcCallback
  /\ IF DeadlineExceeded(now, polling_interval, end_time)
       THEN /\ outcome' = "JobTimeoutError"
            /\ errStatus' = results
            /\ pc' = "done"
            /\ UNCHANGED retval
       ELSE IF Truthy(results) /\ HasMatch(results, expected_condition)
         THEN /\ outcome' = "returned"
              /\ retval' = results
              /\ pc' = "done"
              /\ UNCHANGED errStatus
         ELSE /\ pc' = "sleep"
              /\ UNCHANGED <<outcome, retval, errStatus>>
  /\ UNCHANGED tvVars
  /\ UNCHANGED auxVars
  /\ UNCHANGED <<fn, now, end_time, timeout, polling_interval,
                 expected_condition, status_callback, results, lastFetch,
                 lastObserved, nFetch, nSleep, lastSleep>>

\* the rest of the iteration after the fetch: the callback, the scan of the
\* conditions, and the deadline check
WfcPoll ==
  /\ fn = "wait_for_condition" /\ pc = "poll"
  /\ WfcCallback
  /\ IF CallbackRaises
       THEN /\ Raise("CallbackError")
            /\ UNCHANGED <<retval, errStatus>>
       ELSE IF Truthy(results) /\ HasMatch(results, expected_condition)
         THEN /\ outcome' = "returned"
              /\ retval' = results
              /\ pc' = "done"
              /\ UNCHANGED errStatus
         ELSE IF DeadlineExceeded(now, polling_interval, end_time)
           THEN /\ outcome' = "JobTimeoutError"
                /\ errStatus' = results
                /\ pc' = "done"
                /\ UNCHANGED retval
           ELSE /\ pc' = "sleep"
                /\ UNCHANGED <<outcome, retval, errStatus>>
  /\ UNCHANGED tvVars
  /\ UNCHANGED auxVars
  /\ UNCHANGED <<fn, now, end_time, timeout, polling_interval,
                 expected_condition, status_callback, results, lastFetch,
                 lastObserved, nFetch, nSleep, lastSleep>>

\* the argument of time.sleep: polling_interval.seconds
SleepArg(interval) == TimedeltaSeconds(interval)

\* time.sleep(polling_interval.seconds)
WfcSleep ==
  /\ fn = "wait_for_condition" /\ pc = "sleep"
  /\ now' = now + Seconds(SleepArg(polling_interval))
  /\ lastSleep' = Seconds(SleepArg(polling_interval))
  /\ nSleep' = Bump(nSleep)
  /\ pc' = "fetch"
  /\ UNCHANGED tvVars
  /\ UNCHANGED auxVars
  /\ UNCHANGED <<fn, end_time, timeout, polling_interval, expected_condition,
                 status_callback, results, outcome, retval, errStatus,
                 lastFetch, lastObserved, nFetch, nCb, lastCbArg>>

(***************************************************************************)
(* wait_for_delete                                                         *)
(***************************************************************************)
\* the call: end_time = datetime.datetime.now() + timeout
CallWaitForDelete ==
  /\ pc = "idle"
  /\ \E cfg \in Configs, cb \in BOOLEAN :
       /\ timeout' = cfg[1]
       /\ polling_interval' = cfg[2]
       /\ status_callback' = cb
       /\ end_time' = now + cfg[1]
  /\ fn' = "wait_for_delete"
  /\ pc' = "fetch"
  /\ UNCHANGED tvVars
  /\ UNCHANGED auxVars
  /\ UNCHANGED <<now, expected_condition, results, outcome, retval, errStatus,
                 lastFetch, lastObserved, nFetch, nSleep, nCb, lastCbArg,
                 lastSleep>>

\* results = crd_api.get_namespaced_custom_object(...) answers with the TFJob
WfdFetchResource ==
  /\ fn = "wait_for_delete" /\ pc = "fetch"
  /\ \E job \in Jobs, d \in FetchLatencies :
       /\ results' = job
       /\ now' = now + d
       /\ lastFetch' = [kind |-> "data", value |-> job, status |-> 0]
       /\ lastObserved' = job
  /\ nFetch' = Bump(nFetch)
  /\ pc' = "poll"
  /\ UNCHANGED tvVars
  /\ UNCHANGED auxVars
  /\ UNCHANGED <<fn, end_time, timeout, polling_interval, expected_condition,
                 status_callback, outcome, retval, errStatus, nSleep, nCb,
                 lastCbArg, lastSleep>>

\* the synchronous get_namespaced_custom_object(...) is called without a
\* request timeout: an ApiServer that never answers keeps the call inside it
WfdFetchStalls ==
  /\ fn = "wait_for_delete" /\ pc = "fetch"
  /\ pc' = "blocked"
  /\ UNCHANGED <<fn, outcome, now, pollVars, tvVars, auxVars>>

\* http_client.NOT_FOUND
NOT_FOUND == 404
\* the statuses of the rest.ApiException the fetch raises
ApiStatuses == {NOT_FOUND, 403, 500}

\* a check that takes every client error for not-found
IsClientError(status) == status >= 400 /\ status < 500

\* if e.status == http_client.NOT_FOUND
IsNotFound(status) == status = NOT_FOUND

\* except rest.ApiException as e: if e.status == http_client.NOT_FOUND:
\* return; otherwise logged and re-raised
WfdFetchApiException ==
  /\ fn = "wait_for_delete" /\ pc = "fetch"
  /\ \E status \in ApiStatuses, d \in FetchLatencies :
       /\ now' = now + d
       /\ lastFetch' = [kind |-> "ApiException", value |-> None,
                        status |-> status]
       /\ outcome' = IF IsNotFound(status) THEN "returned"
                                           ELSE "ApiException"
  /\ nFetch' = Bump(nFetch)
  /\ pc' = "done"
  /\ UNCHANGED tvVars
  /\ UNCHANGED auxVars
  /\ UNCHANGED <<fn, end_time, timeout, polling_interval, expected_condition,
                 status_callback, results, retval, errStatus, lastObserved,
                 nSleep, nCb, lastCbArg, lastSleep>>

\* if status_callback: status_callback(results)
WfdCallback ==
  IF status_callback
    THEN nCb' = Bump(nCb) /\ lastCbArg' = results
    ELSE UNCHANGED <<nCb, lastCbArg>>

\* the rest of the iteration after the fetch: the callback and the deadline
\* check, which raises util.TimeoutError(message)
WfdPoll ==
  /\ fn = "wait_for_delete" /\ pc = "poll"
  /\ WfdCallback
  /\ IF DeadlineExceeded(now, polling_interval, end_time)
       THEN /\ outcome' = "TimeoutError"
            /\ pc' = "done"
       ELSE /\ pc' = "sleep"
            /\ UNCHANGED outcome
  /\ UNCHANGED tvVars
  /\ UNCHANGED auxVars
  /\ UNCHANGED <<fn, now, end_time, timeout, polling_interval,
                 expected_condition, status_callback, results, retval,
                 errStatus, lastFetch, lastObserved, nFetch, nSleep,
                 lastSleep>>

\* time.sleep(polling_interval.seconds)
WfdSleep ==
  /\ fn = "wait_for_delete" /\ pc = "sleep"
  /\ now' = now + Seconds(SleepArg(polling_interval))
  /\ lastSleep' = Seconds(SleepArg(polling_interval))
  /\ nSleep' = Bump(nSleep)
  /\ pc' = "fetch"
  /\ UNCHANGED tvVars
  /\ UNCHANGED auxVars
  /\ UNCHANGED <<fn, end_time, timeout, polling_interval, expected_condition,
                 status_callback, results, outcome, retval, errStatus,
                 lastFetch, lastObserved, nFetch, nCb, lastCbArg>>

(***************************************************************************)
(* terminate_replica, terminate_replicas                                   *)
(***************************************************************************)
\* k8s_util.wait_for_pods_to_be_in_phases(api_client, namespace, selector,
\* phases, timeout): returns once every pod the selector matches is in one of
\* the phases, raises a timeout error when the deadline passes first
\* (ok = FALSE)
WaitForPodsToBeInPhases(selector, phases, ok) ==
  /\ waited' = Append(waited, [selector |-> selector, phases |-> phases])
  /\ failedStep' = IF ok THEN failedStep ELSE "wait"

\* the call terminate_replicas(api_client, namespace, name, replica,
\* num_targets, exit_code)
CallTerminateReplicas ==
  /\ pc = "idle"
  /\ \E r \in ReplicaTypes, n \in 0..MaxTargets, e \in ExitCodes :
       tr' = [replica |-> r, num_targets |-> n, exit_code |-> e]
  /\ fn' = "terminate_replicas"
  /\ pc' = "tr_wait"
  /\ UNCHANGED pollVars
  /\ UNCHANGED auxVars
  /\ UNCHANGED <<outcome, now, args, first_start_time, restart_time, passed,
                 num, attempt_start, waited, lookups, sent, nAttempts,
                 failedStep>>

\* Wait for the pods to be ready before we shutdown
TrWait ==
  /\ pc = "tr_wait"
  /\ \E ok \in BOOLEAN :
       /\ WaitForPodsToBeInPhases(ReplicaSelector(JobName, tr.replica),
                                  <<"Running">>, ok)
       /\ IF ok THEN pc' = "tr_loop" /\ UNCHANGED outcome
                ELSE Raise("TimeoutError")
  /\ num' = 0
  /\ UNCHANGED pollVars
  /\ UNCHANGED auxVars
  /\ UNCHANGED <<fn, now, args, first_start_time, restart_time, passed, tr,
                 attempt_start, lookups, sent, nAttempts>>

\* for num in range(num_targets): the next terminate_replica starts (the retry
\* loop notes its start_time), or the loop is over and terminate_replicas
\* returns to its caller
TrLoop ==
  /\ pc = "tr_loop"
  /\ IF num < tr.num_targets
       THEN /\ attempt_start' = now
            /\ nAttempts' = 0
            /\ pc' = "tr_attempt"
            /\ UNCHANGED outcome
       ELSE /\ IF fn = "terminate_replicas"
                 THEN outcome' = "returned" /\ pc' = "done"
                 ELSE UNCHANGED outcome /\ pc' = "tv_wait_phase"
            /\ UNCHANGED <<attempt_start, nAttempts>>
  /\ UNCHANGED pollVars
  /\ UNCHANGED auxVars
  /\ UNCHANGED <<fn, now, args, first_start_time, restart_time, passed, tr,
                 num, waited, lookups, sent, failedStep>>

\* targets numbered from one
FullTargetFromOne(name, replica, n) == <<name, replica, n + 1>>

\* full_target = target + "-{0}".format(num), target = "{name}-{replica}"
FullTarget(name, replica, n) == <<name, replica, n>>

\* the retry loop's stop: delay_since_first_attempt_ms >= stop_max_delay
RetryStop(delay) == delay >= STOP_MAX_DELAY

\* util.send_request(master_host, namespace, target, "exit",
\* {"exitCode": exit_code}): the request is delivered, or an error is raised
\* (ok = FALSE)
SendRequest(target, exit_code, ok) ==
  sent' = IF ok THEN Append(sent, [target |-> target, exit_code |-> exit_code])
                ELSE sent

\* one attempt of terminate_replica: the send succeeds, or raises and the
\* retry loop either re-raises (stop) or goes on to its fixed wait
TrAttempt ==
  /\ pc = "tr_attempt"
  /\ nAttempts' = Bump(nAttempts)
  /\ \E d \in SendLatencies, ok \in BOOLEAN :
       /\ now' = now + d
       /\ SendRequest(FullTarget(JobName, tr.replica, num), tr.exit_code, ok)
       /\ IF ok
            THEN /\ num' = num + 1
                 /\ pc' = "tr_loop"
                 /\ UNCHANGED <<outcome, failedStep>>
            ELSE /\ IF RetryStop(now + d - attempt_start)
                      THEN Raise("SendError") /\ failedStep' = "send"
                      ELSE pc' = "tr_backoff"
                           /\ UNCHANGED <<outcome, failedStep>>
                 /\ UNCHANGED num
  /\ UNCHANGED pollVars
  /\ UNCHANGED auxVars
  /\ UNCHANGED <<fn, args, first_start_time, restart_time, passed, tr,
                 attempt_start, waited, lookups>>

\* the retry loop's time.sleep(wait_fixed / 1000.0)
TrBackoff ==
  /\ pc = "tr_backoff"
  /\ now' = now + WAIT_FIXED
  /\ pc' = "tr_attempt"
  /\ UNCHANGED pollVars
  /\ UNCHANGED auxVars
  /\ UNCHANGED <<fn, outcome, tvVars>>

(***************************************************************************)
(* terminate_and_verify_start_time                                         *)
(***************************************************************************)
\* the replica type the function hands to wait_for_replica_type_in_phases and
\* to terminate_replicas: the literal "ps", whatever replica_type is
TvWaitReplica(replica_type) == "ps"
TvTerminateReplica(replica_type) == "ps"
\* the num_targets handed to terminate_replicas
TvNumTargets == 1

\* the phase waited for after the termination: if expect_restart / elif
\* expect_restart is False and exit_code == 0 / else
PostPhase(expect_restart, exit_code) ==
  IF expect_restart THEN "Running"
  ELSE IF exit_code = 0 THEN "Succeeded"
  ELSE "Failed"

\* a comparison with < for <=
StartTimeOkStrict(expect_restart, t0, t1) ==
  IF expect_restart THEN ~(t1 < t0) ELSE ~(t1 # t0)

\* the comparison that decides the return value: False when
\* restart_time <= first_start_time (expect_restart), False when
\* restart_time != first_start_time (otherwise), True in the end
StartTimeOk(expect_restart, t0, t1) ==
  IF expect_restart THEN ~(t1 <= t0) ELSE ~(t1 # t0)

\* the call
CallTerminateAndVerify ==
  /\ pc = "idle"
  /\ \E r \in ReplicaTypes, i \in 0..MaxIndex, e \in ExitCodes,
        x \in BOOLEAN :
       args' = [replica_type |-> r, replica_index |-> i, exit_code |-> e,
                expect_restart |-> x]
  /\ fn' = "terminate_and_verify_start_time"
  /\ pc' = "tv_wait_running"
  /\ UNCHANGED pollVars
  /\ UNCHANGED auxVars
  /\ UNCHANGED <<outcome, now, first_start_time, restart_time, passed, tr,
                 num, attempt_start, waited, lookups, sent, nAttempts,
                 failedStep>>

\* wait_for_replica_type_in_phases(api_client, namespace, name, "ps",
\* ["Running"])
TvWaitRunning ==
  /\ pc = "tv_wait_running"
  /\ \E ok \in BOOLEAN :
       /\ WaitForPodsToBeInPhases(
            ReplicaSelector(JobName, TvWaitReplica(args.replica_type)),
            <<"Running">>, ok)
       /\ IF ok THEN pc' = "tv_first_start" /\ UNCHANGED outcome
                ELSE Raise("TimeoutError")
  /\ UNCHANGED pollVars
  /\ UNCHANGED auxVars
  /\ UNCHANGED <<fn, now, args, first_start_time, restart_time, passed, tr,
                 num, attempt_start, lookups, sent, nAttempts>>

\* get_start_time_by_index -> k8s_util.get_container_start_time(api_client,
\* namespace, pod_selector, replica_index, phase): the start time of the pod,
\* or an error
\* (ok = FALSE)
GetStartTimeByIndex(replica_type, replica_index, phase, ok) ==
  /\ lookups' = Append(lookups,
                       [selector |-> ReplicaSelector(JobName, replica_type),
                        index |-> replica_index, phase |-> phase])
  /\ failedStep' = IF ok THEN failedStep ELSE "lookup"

\* first_start_time = get_start_time_by_index(..., replica_type,
\* replica_index, "Running"); then terminate_replicas(api_client, namespace,
\* name, "ps", 1, exit_code) is entered
TvFirstStartTime ==
  /\ pc = "tv_first_start"
  /\ \E ok \in BOOLEAN :
       /\ GetStartTimeByIndex(args.replica_type, args.replica_index,
                              "Running", ok)
       /\ IF ok
            THEN /\ \E t \in StartTimes : first_start_time' = t
                 /\ tr' = [replica |-> TvTerminateReplica(args.replica_type),
                           num_targets |-> TvNumTargets,
                           exit_code |-> args.exit_code]
                 /\ pc' = "tr_wait"
                 /\ UNCHANGED outcome
            ELSE /\ Raise("LookupError")
                 /\ UNCHANGED <<first_start_time, tr>>
  /\ UNCHANGED pollVars
  /\ UNCHANGED auxVars
  /\ UNCHANGED <<fn, now, args, restart_time, passed, num, attempt_start,
                 waited, sent, nAttempts>>

\* a wait whose timeout is caught and reported as a failed test
TvWaitPhaseSwallowsTimeout ==
  /\ pc = "tv_wait_phase"
  /\ \E ok \in BOOLEAN :
       /\ WaitForPodsToBeInPhases(
            ReplicaSelector(JobName, TvWaitReplica(args.replica_type)),
            <<PostPhase(args.expect_restart, args.exit_code)>>, ok)
       /\ IF ok THEN pc' = "tv_restart_time" /\ UNCHANGED outcome
                ELSE outcome' = "returned" /\ pc' = "done"
  /\ UNCHANGED pollVars
  /\ UNCHANGED auxVars
  /\ UNCHANGED <<fn, now, args, first_start_time, restart_time, passed, tr,
                 num, attempt_start, lookups, sent, nAttempts>>

\* the wait of the branch taken: Running, Succeeded or Failed
TvWaitPhase ==
  /\ pc = "tv_wait_phase"
  /\ \E ok \in BOOLEAN :
       /\ WaitForPodsToBeInPhases(
            ReplicaSelector(JobName, TvWaitReplica(args.replica_type)),
            <<PostPhase(args.expect_restart, args.exit_code)>>, ok)
       /\ IF ok THEN pc' = "tv_restart_time" /\ UNCHANGED outcome
                ELSE Raise("TimeoutError")
  /\ UNCHANGED pollVars
  /\ UNCHANGED auxVars
  /\ UNCHANGED <<fn, now, args, first_start_time, restart_time, passed, tr,
                 num, attempt_start, lookups, sent, nAttempts>>

\* restart_time = get_start_time_by_index(..., replica_type, replica_index,
\* phase of the branch); the comparison; return False / return True
TvRestartTime ==
  /\ pc = "tv_restart_time"
  /\ \E ok \in BOOLEAN :
       /\ GetStartTimeByIndex(args.replica_type, args.replica_index,
                              PostPhase(args.expect_restart, args.exit_code),
                              ok)
       /\ IF ok
            THEN /\ \E t \in StartTimes :
                      /\ restart_time' = t
                      /\ passed' = StartTimeOk(args.expect_restart,
                                               first_start_time, t)
                 /\ outcome' = "returned"
                 /\ pc' = "done"
            ELSE /\ Raise("LookupError")
                 /\ UNCHANGED <<restart_time, passed>>
  /\ UNCHANGED pollVars
  /\ UNCHANGED auxVars
  /\ UNCHANGED <<fn, now, args, first_start_time, tr, num, attempt_start,
                 waited, sent, nAttempts>>

(***************************************************************************)
(* get_creation_failures_from_tfjob                                        *)
(***************************************************************************)
\* The entries of spec.tfReplicaSpecs.  An entry is empty ({} or None, both
\* falsy), or a dict with fields (a template, say) and with or without a
\* "replicas" count.
ReplicaKeys == {"worker", "ps"}
EmptyEntry == [empty |-> TRUE, declared |-> FALSE, replicas |-> 0]
EntryWithoutCount == [empty |-> FALSE, declared |-> FALSE, replicas |-> 0]
EntryWithCount(n) == [empty |-> FALSE, declared |-> TRUE, replicas |-> n]
Entries ==
  {EmptyEntry, EntryWithoutCount} \cup {EntryWithCount(n) : n \in 0..MaxReplicas}

\* tfjob.get("spec", {}).get("tfReplicaSpecs", {}): the entries by replica
\* key; a job without the "spec" or the "tfReplicaSpecs" key has none
ReplicaSpecs == UNION {[K -> Entries] : K \in SUBSET ReplicaKeys}

\* if replica_spec: num_expected += replica_spec.get("replicas", 1)
\* (an empty entry is falsy and adds nothing)
EntryCount(replica_spec) ==
  IF replica_spec.empty THEN 0
  ELSE IF replica_spec.declared THEN replica_spec.replicas ELSE 1

\* num_expected = 0; for replicakey in tfReplicaSpecs: ...
RECURSIVE NumExpected(_, _)
NumExpected(specs, keys) ==
  IF keys = {} THEN 0
  ELSE LET replicakey == CHOOSE k \in keys : TRUE
       IN  EntryCount(specs[replicakey])
             + NumExpected(specs, keys \ {replicakey})

\* fewer events than expected
CountFallsShort(n, num_expected) == n < num_expected

\* len(created_pods) != num_expected, len(created_services) != num_expected
CountDiffers(n, num_expected) == n # num_expected

\* "Expected {0} <what> to be created but only got {1} create events."
FailureMessage(what, num_expected, n) ==
  [about |-> what, expected |-> num_expected, got |-> n]

\* k8s_util.get_events and k8s_util.parse_events: the create events of the
\* job's pods and of its services, known here by their numbers
ParseEvents(n_pods, n_services) ==
  [created_pods |-> n_pods, created_services |-> n_services]

\* the list creation_failures the function returns
get_creation_failures_from_tfjob(specs, events) ==
  LET num_expected == NumExpected(specs, DOMAIN specs)
      pods == IF CountDiffers(events.created_pods, num_expected)
                THEN <<FailureMessage("pods", num_expected,
                                      events.created_pods)>>
                ELSE <<>>
      services == IF CountDiffers(events.created_services, num_expected)
                    THEN <<FailureMessage("services", num_expected,
                                          events.created_services)>>
                    ELSE <<>>
  IN  pods \o services

\* the call get_creation_failures_from_tfjob(api_client, namespace, tfjob)
CallGetCreationFailures ==
  /\ pc = "idle"
  /\ \E specs \in ReplicaSpecs, p \in 0..MaxEvents, sv \in 0..MaxEvents :
       /\ pure_args' = [tag |-> "tfjob", tfReplicaSpecs |-> specs,
                        events |-> ParseEvents(p, sv)]
       /\ pure_result' =
            [tag |-> "list",
             value |-> get_creation_failures_from_tfjob(specs,
                                                        ParseEvents(p, sv))]
  /\ fn' = "get_creation_failures_from_tfjob"
  /\ pc' = "done"
  /\ outcome' = "returned"
  /\ UNCHANGED <<now, pollVars, tvVars, callback_raises, pod>>

(***************************************************************************)
(* to_selector(get_labels(...)) as a call of its own                       *)
(***************************************************************************)
JobNames == {JobName, "other-job"}

\* the call to_selector(get_labels(name, replica_type, replica_index))
CallToSelector ==
  /\ pc = "idle"
  /\ \E name \in JobNames, replica_type \in ReplicaTypes \cup {""},
        replica_index \in {NoIndex} \cup {Index(i) : i \in 0..MaxIndex} :
       /\ pure_args' = [tag |-> "labels", name |-> name,
                        replica_type |-> replica_type,
                        replica_index |-> replica_index]
       /\ pure_result' =
            [tag |-> "selector",
             value |-> to_selector(get_labels(name, replica_type,
                                              replica_index))]
  /\ fn' = "to_selector"
  /\ pc' = "done"
  /\ outcome' = "returned"
  /\ UNCHANGED <<now, pollVars, tvVars, callback_raises, pod>>

(***************************************************************************)
(* job_succeeded                                                           *)
(***************************************************************************)
\* the spellings of the type that job_succeeded looks for
SucceededSpellings == {"Succeeded", "succeeded", "SUCCEEDED"}

\* the jobs job_succeeded is called with
JobSucceededInputs ==
  {Job("nostatus", <<>>), Job("nokey", <<>>), Job("none", <<>>)}
    \cup {Job("list", cs) :
            cs \in SeqsUpTo(CondTypes \cup SucceededSpellings, MaxConds)}

\* what a call of job_succeeded comes to: a boolean, or an error
Returns(b) == [raised |-> "none", value |-> b]
Raises(error) == [raised |-> error, value |-> FALSE]

\* a check that looks for the type in every condition
JobSucceededOnAnyCondition(tfjob) ==
  Returns(\E i \in 1..Len(Conditions(tfjob)) :
            Lower(TypeOf(Conditions(tfjob)[i])) = "succeeded")

\* last_condition = tfjob.get("status", {}).get("conditions", [{}])[-1]
\* return last_condition.get("type", "").lower() == "succeeded"
\* (the defaults stand in for a missing key only: None[-1] is a TypeError,
\* [][-1] an IndexError)
job_succeeded(tfjob) ==
  CASE tfjob.st \in {"nostatus", "nokey"} -> Returns(Lower("") = "succeeded")
    [] tfjob.st = "none" -> Raises("TypeError")
    [] tfjob.st = "list" /\ Len(tfjob.conds) = 0 -> Raises("IndexError")
    [] OTHER ->
         Returns(Lower(TypeOf(tfjob.conds[Len(tfjob.conds)])) = "succeeded")

\* the call job_succeeded(tfjob)
CallJobSucceeded ==
  /\ pc = "idle"
  /\ \E tfjob \in JobSucceededInputs :
       /\ pure_args' = [tag |-> "tfjob", tfjob |-> tfjob]
       /\ pure_result' = job_succeeded(tfjob)
       /\ outcome' = IF job_succeeded(tfjob).raised = "none"
                       THEN "returned"
                       ELSE job_succeeded(tfjob).raised
  /\ fn' = "job_succeeded"
  /\ pc' = "done"
  /\ UNCHANGED <<now, pollVars, tvVars, callback_raises, pod>>

vars == <<fn, pc, outcome, now, pollVars, tvVars, auxVars>>

Next ==
  \/ CallWaitForCondition
  \/ WfcFetchData
  \/ WfcFetchTimeout
  \/ WfcFetchError
  \/ WfcPoll
  \/ WfcSleep
  \/ CallWaitForDelete
  \/ WfdFetchResource
  \/ WfdFetchStalls
  \/ WfdFetchApiException
  \/ WfdPoll
  \/ WfdSleep
  \/ CallTerminateReplicas
  \/ TrWait
  \/ TrLoop
  \/ TrAttempt
  \/ TrBackoff
  \/ CallTerminateAndVerify
  \/ TvWaitRunning
  \/ TvFirstStartTime
  \/ TvWaitPhase
  \/ TvRestartTime
  \/ CallGetCreationFailures
  \/ CallToSelector
  \/ CallJobSucceeded

Spec == Init /\ [][Next]_vars

\* The steps of wait_for_condition alone
NextWfc ==
  \/ CallWaitForCondition
  \/ WfcFetchData
  \/ WfcFetchTimeout
  \/ WfcFetchError
  \/ WfcPoll
  \/ WfcSleep

\* wait_for_condition under a scheduler that keeps it running (no step waits
\* forever) and a wall clock that advances: of the fetches of a wait that
\* goes on polling, some take time.
FairSpec ==
  /\ Init
  /\ [][NextWfc]_vars
  /\ WF_vars(NextWfc)
  /\ SF_vars(WfcFetchData /\ now' > now)

\* wait_for_condition called with any callback
NextAnyCallback ==
  \/ CallWaitForConditionAnyCallback
  \/ WfcFetchData
  \/ WfcFetchTimeout
  \/ WfcFetchError
  \/ WfcPoll
  \/ WfcSleep

SpecAnyCallback == Init /\ [][NextAnyCallback]_vars

(***************************************************************************)
(* terminate_and_verify_start_time against a cluster that restarts the pod *)
(***************************************************************************)
\* The cluster's side, for the pod {name}-ps-0: it runs; some time after the
\* exit request has been delivered the cluster takes it out of phase
\* Running, and then brings it back to Running with a later start time.
\* The cluster's steps and the verifier's steps interleave freely.
PodRunning(t) == [phase |-> "Running", start_time |-> t, restarts |-> 0]

\* the call, with expect_restart true and the ps replica of index 0, while
\* the pod runs
CallTerminateAndVerifyOnCluster ==
  /\ pc = "idle"
  /\ \E r \in {"ps", "PS"}, e \in ExitCodes :
       args' = [replica_type |-> r, replica_index |-> 0, exit_code |-> e,
                expect_restart |-> TRUE]
  /\ \E t \in 0..(MaxStartTime - 1) : pod' = PodRunning(t)
  /\ fn' = "terminate_and_verify_start_time"
  /\ pc' = "tv_wait_running"
  /\ UNCHANGED pollVars
  /\ UNCHANGED <<callback_raises, pure_args, pure_result>>
  /\ UNCHANGED <<outcome, now, first_start_time, restart_time, passed, tr,
                 num, attempt_start, waited, lookups, sent, nAttempts,
                 failedStep>>

\* the exit request has arrived: the pod leaves phase Running
ClusterKillsPod ==
  /\ sent # <<>>
  /\ pod.phase = "Running" /\ pod.restarts = 0
  /\ pod' = [pod EXCEPT !.phase = "Pending"]
  /\ UNCHANGED <<fn, pc, outcome, now, pollVars, tvVars, callback_raises,
                 pure_args, pure_result>>

\* the pod is recreated and runs again, with a strictly later start time
ClusterRecreatesPod ==
  /\ pod.phase = "Pending"
  /\ pod' = [phase |-> "Running", start_time |-> pod.start_time + 1,
             restarts |-> pod.restarts + 1]
  /\ UNCHANGED <<fn, pc, outcome, now, pollVars, tvVars, callback_raises,
                 pure_args, pure_result>>

\* k8s_util.wait_for_pods_to_be_in_phases on this cluster: it comes back
\* when it finds the pod in phase Running, and times out when it does not
WaitSeesPod(pc_after) == (pc' = pc_after) <=> (pod.phase = "Running")

\* k8s_util.get_container_start_time(..., "Running") on this cluster: the
\* start time of the pod as it is at the time of the call
LookupSeesPod(found, t) ==
  /\ found <=> pod.phase = "Running"
  /\ found => t = pod.start_time

TvWaitRunningOnCluster == TvWaitRunning /\ WaitSeesPod("tv_first_start")

TvFirstStartTimeOnCluster ==
  TvFirstStartTime /\ LookupSeesPod(pc' = "tr_wait", first_start_time')

TrWaitOnCluster == TrWait /\ WaitSeesPod("tr_loop")

TvWaitPhaseOnCluster == TvWaitPhase /\ WaitSeesPod("tv_restart_time")

TvRestartTimeOnCluster ==
  TvRestartTime /\ LookupSeesPod(outcome' = "returned", restart_time')

NextOnCluster ==
  \/ CallTerminateAndVerifyOnCluster
  \/ TvWaitRunningOnCluster
  \/ TvFirstStartTimeOnCluster
  \/ TrWaitOnCluster
  \/ TrLoop
  \/ TrAttempt
  \/ TrBackoff
  \/ TvWaitPhaseOnCluster
  \/ TvRestartTimeOnCluster
  \/ ClusterKillsPod
  \/ ClusterRecreatesPod

SpecOnCluster == Init /\ [][NextOnCluster]_vars

(***************************************************************************)
(* Properties                                                              *)
(***************************************************************************)
Wfc == fn = "wait_for_condition"
Wfd == fn = "wait_for_delete"
Tv == fn = "terminate_and_verify_start_time"

\* a fetched value that is a status with a condition of an expected type
MatchingStatus(v, expected) ==
  /\ v.tag = "job"
  /\ v.st = "list"
  /\ \E i \in 1..Len(v.conds) : v.conds[i] \in expected

\* nothing happens after the call has ended
NothingAfterTheEnd == pc = "done" => UNCHANGED vars

C2_MatchReturnsAtOnce ==
  /\ [](Wfc /\ nFetch = 1 /\ pc = "poll" => nSleep = 0)
  /\ [][ /\ (Wfc /\ pc = "poll" /\ lastFetch.kind = "data"
               /\ MatchingStatus(lastFetch.value, expected_condition))
              => /\ outcome' = "returned"
                 /\ pc' = "done"
                 /\ retval' = lastFetch.value
                 /\ nFetch' = nFetch
                 /\ nSleep' = nSleep
                 /\ now' = now
         /\ NothingAfterTheEnd ]_vars

\* the first fetch matches at a moment the deadline check would raise
C2_Witness ==
  /\ Wfc /\ outcome = "returned"
  /\ nFetch = 1 /\ nSleep = 0
  /\ now + polling_interval > end_time

\* C3 as stated: JobTimeoutError is never raised while the deadline is still
\* in the future
C3_RaisedOnlyAfterDeadline ==
  Wfc /\ outcome = "JobTimeoutError" => ~(now < end_time)

\* C3 as the code has it: JobTimeoutError is raised only in an iteration
\* without a match whose check finds now + polling_interval > end_time, which
\* may be up to polling_interval before the deadline; while
\* now + polling_interval <= end_time the loop sleeps instead.
C3_RaisedWhenNextPollWouldMissDeadline ==
  /\ Wfc /\ outcome = "JobTimeoutError" => now + polling_interval > end_time
  /\ Wfc /\ pc = "sleep" => now + polling_interval <= end_time

\* the error is raised while the deadline is still in the future
C3_Witness ==
  /\ Wfc /\ outcome = "JobTimeoutError"
  /\ now < end_time
  /\ nSleep >= 1

\* C4: every call of wait_for_condition ends (it returns, raises
\* JobTimeoutError or lets a fetch error through), for every timeout and
\* polling interval, given that the clock advances and every fetch answers or
\* times out.
C4_WaitTerminates == Wfc ~> (Wfc /\ pc = "done" /\ outcome # "none")

\* a wait with a sub-second interval, which sleeps for 0 seconds, has ended
\* on its deadline after polling several times
C4_Witness ==
  /\ Wfc /\ outcome = "JobTimeoutError"
  /\ polling_interval = 100
  /\ nFetch >= 3 /\ nSleep >= 2 /\ lastSleep = 0

\* C5 as stated: the JobTimeoutError carries the status of the most recent
\* fetch of this wait that yielded data (None only if there was none)
C5_ErrorCarriesLastObserved ==
  Wfc /\ outcome = "JobTimeoutError" => errStatus = lastObserved

\* C6: a fetch that hits the per-call timeout leaves results None, and the
\* rest of its iteration invokes no callback, cannot return, and ends exactly
\* as the deadline check says (JobTimeoutError or on to the sleep); a fetch
\* that raises anything else ends the call at once with that error, with no
\* callback, no sleep and no time spent; nothing follows the end.
C6_FetchTimeoutIsNoDataOtherErrorsPropagate ==
  /\ [](Wfc /\ lastFetch.kind = "error" =>
          pc = "done" /\ outcome = "FetchError")
  /\ [](Wfc /\ lastFetch.kind = "timeout" /\ pc = "poll" => results = None)
  /\ [][ /\ (Wfc /\ pc = "poll" /\ lastFetch.kind = "timeout") =>
              /\ nCb' = nCb /\ lastCbArg' = lastCbArg
              /\ outcome' # "returned"
              /\ IF now + polling_interval > end_time
                   THEN outcome' = "JobTimeoutError" /\ pc' = "done"
                   ELSE outcome' = "none" /\ pc' = "sleep"
         /\ (Wfc /\ pc = "fetch" /\ lastFetch'.kind = "error") =>
              /\ outcome' = "FetchError" /\ pc' = "done"
              /\ nCb' = nCb /\ nSleep' = nSleep /\ now' = now
         /\ NothingAfterTheEnd ]_vars

\* with a callback supplied, a round whose fetch timed out went on to the
\* sleep without invoking it
C6_Witness ==
  /\ Wfc /\ pc = "sleep"
  /\ lastFetch.kind = "timeout"
  /\ status_callback /\ nCb = 0

\* C7: wait_for_delete returns exactly when its last fetch raised an
\* ApiException with status 404 (and then at once, whatever was fetched
\* before and whatever the deadline check would say); an ApiException with
\* another status ends the call with that exception; a TimeoutError carries
\* no status and is raised only after a fetch that returned the resource,
\* when now + polling_interval > end_time; otherwise the loop sleeps.
C7_DeleteWaitOutcomes ==
  Wfd =>
    /\ (pc = "done") <=> (outcome # "none")
    /\ outcome \in {"none", "returned", "ApiException", "TimeoutError"}
    /\ lastFetch.kind = "ApiException" =>
         /\ pc = "done"
         /\ outcome = IF lastFetch.status = 404 THEN "returned"
                                                ELSE "ApiException"
    /\ outcome \in {"returned", "ApiException"} =>
         lastFetch.kind = "ApiException"
    /\ outcome = "TimeoutError" =>
         /\ lastFetch.kind = "data"
         /\ now + polling_interval > end_time
         /\ errStatus = None
    /\ pc = "sleep" => now + polling_interval <= end_time

\* not-found ends the wait after earlier fetches returned the resource, at a
\* moment the deadline check would raise
C7_Witness ==
  /\ Wfd /\ outcome = "returned"
  /\ nFetch >= 2 /\ lastObserved # None
  /\ now + polling_interval > end_time

\* the replica type a selector addresses ("" if it names none)
SelectorReplicaType(selector) ==
  IF \E i \in 1..Len(selector) : selector[i].key = "replica-type"
    THEN (CHOOSE part \in {selector[i] : i \in 1..Len(selector)} :
            part.key = "replica-type").value
    ELSE ""

\* C8: when terminate_and_verify_start_time returns, t0 is the start time
\* looked up under phase Running before the exit request was sent, t1 the
\* start time looked up after it and after the wait for the branch's phase
\* (Running if expect_restart, else Succeeded for exit code 0 and Failed for
\* any other), and the value returned is t1 > t0 with expect_restart and
\* t1 = t0 without.
C8_VerdictIsTheStartTimeComparison ==
  /\ Tv /\ sent # <<>> => Len(lookups) >= 1 /\ lookups[1].phase = "Running"
  /\ Tv /\ Len(lookups) = 2 => Len(sent) = 1 /\ Len(waited) = 3
  /\ Tv /\ outcome = "returned" =>
       /\ Len(lookups) = 2
       /\ waited[3].phases = <<lookups[2].phase>>
       /\ lookups[2].phase =
            CASE args.expect_restart -> "Running"
              [] ~args.expect_restart /\ args.exit_code = 0 -> "Succeeded"
              [] ~args.expect_restart /\ args.exit_code # 0 -> "Failed"
       /\ passed <=> IF args.expect_restart
                       THEN restart_time > first_start_time
                       ELSE restart_time = first_start_time

\* a restart was expected and the start time did not change: False
C8_Witness ==
  /\ Tv /\ outcome = "returned"
  /\ args.expect_restart
  /\ restart_time = first_start_time
  /\ ~passed

\* C9 as stated: every wait of terminate_and_verify_start_time is on the pods
\* of the replica type it was called with, and the exit request goes to an
\* instance of that replica type
C9_AddressedReplicaIsWaitedOnAndTerminated ==
  Tv =>
    /\ \A i \in 1..Len(waited) :
         SelectorReplicaType(waited[i].selector) = Lower(args.replica_type)
    /\ \A i \in 1..Len(sent) :
         Lower(sent[i].target[2]) = Lower(args.replica_type)
    /\ \A i \in 1..Len(lookups) :
         SelectorReplicaType(lookups[i].selector) = Lower(args.replica_type)

\* C10: terminate_and_verify_start_time returns (True or False) exactly when
\* none of its sub-steps failed, and then a mismatch of the start times is
\* the value False; when a wait, a start-time lookup or the exit request
\* fails, the call ends with that error and returns nothing.
C10_MismatchReturnsFalseFailuresPropagate ==
  Tv =>
    /\ (pc = "done") <=> (outcome # "none")
    /\ outcome = "returned" <=> (pc = "done" /\ failedStep = "none")
    /\ failedStep = "wait" => outcome = "TimeoutError"
    /\ failedStep = "lookup" => outcome = "LookupError"
    /\ failedStep = "send" => outcome = "SendError"
    /\ failedStep # "none" => ~passed
    /\ (outcome = "returned" /\ args.expect_restart
          /\ restart_time <= first_start_time) => ~passed
    /\ (outcome = "returned" /\ ~args.expect_restart
          /\ restart_time # first_start_time) => ~passed

\* the wait after the termination timed out, and the call raised
C10_Witness ==
  /\ Tv /\ outcome = "TimeoutError"
  /\ Len(waited) = 3 /\ Len(sent) = 1
  /\ failedStep = "wait"

(***************************************************************************)
(* terminate_replicas (C11)                                                *)
(***************************************************************************)
Tr == fn = "terminate_replicas"

\* the requests for the indexes 0 .. k-1 of the running terminate_replicas,
\* in ascending order: '{name}-{replica}-{index}' with the given exit code
RequestsUpTo(k) ==
  [i \in 1..k |-> [target |-> <<JobName, tr.replica, i - 1>>,
                   exit_code |-> tr.exit_code]]

\* C11 as stated: terminate_replicas sends no request before its wait for
\* Running is over, sends none when that wait times out (the error
\* propagates), and once the wait has succeeded the call ends with exactly
\* one request delivered to each index 0 .. num_targets-1, in ascending
\* order, each with the given exit code.
C11_OneRequestPerIndexAfterTheWait ==
  Tr =>
    /\ pc = "tr_wait" => sent = <<>>
    /\ failedStep = "wait" => sent = <<>> /\ outcome = "TimeoutError"
    /\ (pc = "done" /\ failedStep # "wait") =>
         sent = RequestsUpTo(tr.num_targets)

\* C11 amended: no request before the wait is over and none when it times
\* out; after the wait the indexes are addressed in ascending order, the
\* requests delivered so far being exactly those of the indexes below the
\* loop variable; when the call returns every index 0 .. num_targets-1 has
\* had exactly one request delivered (none for num_targets = 0); when a
\* terminate_replica gives up, its error propagates and no higher index is
\* addressed.
C11_RequestsFollowTheWaitInIndexOrder ==
  Tr =>
    /\ pc = "tr_wait" => sent = <<>>
    /\ failedStep = "wait" => sent = <<>> /\ outcome = "TimeoutError"
    /\ pc # "tr_wait" => sent = RequestsUpTo(num) /\ num <= tr.num_targets
    /\ outcome = "returned" => num = tr.num_targets
    /\ outcome = "SendError" => num < tr.num_targets /\ failedStep = "send"
    /\ pc = "done" => outcome \in {"returned", "TimeoutError", "SendError"}

\* a call for two targets has returned, its sends having taken some time
C11_Witness ==
  /\ Tr /\ outcome = "returned"
  /\ tr.num_targets = 2
  /\ Len(sent) = 2
  /\ now > 0

(***************************************************************************)
(* get_creation_failures_from_tfjob (C12)                                  *)
(***************************************************************************)
Cf == fn = "get_creation_failures_from_tfjob"

\* the messages the claim expects for an expected total: one about the pods
\* iff their number differs from the total, then one about the services iff
\* theirs differs
ClaimedFailures(total, events) ==
  (IF events.created_pods = total THEN <<>>
   ELSE <<[about |-> "pods", expected |-> total,
           got |-> events.created_pods]>>)
  \o
  (IF events.created_services = total THEN <<>>
   ELSE <<[about |-> "services", expected |-> total,
           got |-> events.created_services]>>)

\* the sum, over the entries present, of n(entry)
TotalOver(specs, n(_)) ==
  Cardinality(UNION {{k} \X (1..n(specs[k])) : k \in DOMAIN specs})

\* C12 as stated: the expected total is the sum over every entry present in
\* spec.tfReplicaSpecs of its 'replicas' count, an entry present without a
\* declared count contributing 1; the list returned has the pod message iff
\* the pod events differ from it and the service message iff the service
\* events differ, the pod message first.
C12_EveryEntryWithoutCountAddsOne ==
  Cf =>
    LET n(e) == IF e.declared THEN e.replicas ELSE 1
    IN  pure_result.value =
          ClaimedFailures(TotalOver(pure_args.tfReplicaSpecs, n),
                          pure_args.events)

\* C12 amended: as stated, except that an entry present but empty adds
\* nothing to the expected total; only a non-empty entry without a declared
\* count adds 1.
C12_NonEmptyEntryWithoutCountAddsOne ==
  Cf =>
    LET n(e) == IF e.empty THEN 0 ELSE IF e.declared THEN e.replicas ELSE 1
        total == TotalOver(pure_args.tfReplicaSpecs, n)
        pods == pure_args.events.created_pods
        services == pure_args.events.created_services
        failures == pure_result.value
    IN  /\ failures = ClaimedFailures(total, pure_args.events)
        /\ (\E i \in 1..Len(failures) : failures[i].about = "pods")
             <=> pods # total
        /\ (\E i \in 1..Len(failures) : failures[i].about = "services")
             <=> services # total
        /\ failures = <<>> <=> (pods = total /\ services = total)
        /\ Len(failures) = 2 => failures[1].about = "pods"

\* {worker: 3, ps: 1} with 3 pod and 4 service events: one message, about
\* the pods
C12_Witness ==
  /\ Cf
  /\ pure_args.tfReplicaSpecs =
       [k \in ReplicaKeys |->
          IF k = "worker" THEN EntryWithCount(3) ELSE EntryWithCount(1)]
  /\ pure_args.events = [created_pods |-> 3, created_services |-> 4]
  /\ Len(pure_result.value) = 1
  /\ pure_result.value[1].about = "pods"

(***************************************************************************)
(* get_labels and to_selector (C13)                                        *)
(***************************************************************************)
Sel == fn = "to_selector"

\* the selector has exactly one part with the key, and it reads key=text
HasLabel(selector, key, text) ==
  /\ Cardinality({i \in 1..Len(selector) : selector[i].key = key}) = 1
  /\ \A i \in 1..Len(selector) :
       selector[i].key = key => selector[i].value = text

\* the selector has no part with the key
LacksLabel(selector, key) ==
  \A i \in 1..Len(selector) : selector[i].key # key

\* C13: the selector of get_labels' label set has group-name=kubeflow.org
\* and job-name=<name> always, replica-type=<replica_type in lower case> iff
\* a replica type is provided, and replica-index=<index> iff an index other
\* than 0 is provided; each of these once, and no other part.
C13_SelectorIsExactlyTheLabelSet ==
  Sel =>
    LET selector == pure_result.value
        replica_type == pure_args.replica_type
        replica_index == pure_args.replica_index
        typed == replica_type # ""
        indexed == replica_index.given /\ replica_index.val # 0
        lowered == CASE replica_type \in {"PS", "ps"} -> "ps"
                     [] replica_type \in {"Worker", "worker"} -> "worker"
                     [] replica_type \in {"Chief", "chief"} -> "chief"
                     [] OTHER -> "?"
        digits == [n \in 1..9 |->
                     <<"1", "2", "3", "4", "5", "6", "7", "8", "9">>[n]]
    IN  /\ HasLabel(selector, "group-name", "kubeflow.org")
        /\ HasLabel(selector, "job-name", pure_args.name)
        /\ IF typed THEN HasLabel(selector, "replica-type", lowered)
                    ELSE LacksLabel(selector, "replica-type")
        /\ IF indexed
             THEN HasLabel(selector, "replica-index",
                           digits[replica_index.val])
             ELSE LacksLabel(selector, "replica-index")
        /\ Len(selector) = 2 + (IF typed THEN 1 ELSE 0)
                              + (IF indexed THEN 1 ELSE 0)

\* a selector with all four labels, the replica type put in lower case
C13_Witness ==
  /\ Sel
  /\ pure_args.replica_type = "PS"
  /\ pure_args.replica_index = Index(1)
  /\ Len(pure_result.value) = 4
  /\ pure_result.value[3] = [key |-> "replica-type", value |-> "ps"]
  /\ pure_result.value[4] = [key |-> "replica-index", value |-> "1"]

(***************************************************************************)
(* The status callback of wait_for_condition (C14)                         *)
(***************************************************************************)
\* what the rest of an iteration does to the control flow when no callback
\* is supplied: return on a match, raise at the deadline, sleep otherwise
PollWithoutCallback ==
  /\ now' = now
  /\ IF MatchingStatus(lastFetch.value, expected_condition)
            /\ lastFetch.kind = "data"
       THEN pc' = "done" /\ outcome' = "returned" /\ retval' = lastFetch.value
       ELSE IF now + polling_interval > end_time
         THEN pc' = "done" /\ outcome' = "JobTimeoutError"
         ELSE pc' = "sleep" /\ outcome' = "none"

\* the callback is supplied and the fetch of this iteration yielded data
CallbackDue == status_callback /\ lastFetch.kind = "data"

\* the callback is invoked in the iteration exactly when it is due, with the
\* status just fetched, and in no other step
InvokedOnlyWhenDue ==
  IF pc = "poll"
    THEN /\ nCb < MaxCount => (nCb' = nCb + 1 <=> CallbackDue)
         /\ ~CallbackDue => (nCb' = nCb /\ lastCbArg' = lastCbArg)
         /\ CallbackDue => lastCbArg' = lastFetch.value
    ELSE nCb' = nCb /\ lastCbArg' = lastCbArg

FoundMatch ==
  /\ Wfc
  /\ lastFetch.kind = "data"
  /\ MatchingStatus(lastFetch.value, expected_condition)

TimeoutErrors == {"JobTimeoutError", "TimeoutError"}

\* C15: in both loops an iteration without a match goes to sleep only when
\* its check found now + polling_interval <= end_time, and raises the
\* timeout error instead when now + polling_interval > end_time; every
\* sleep that is started ends no later than the deadline; with
\* polling_interval > timeout the call makes exactly one fetch and never
\* sleeps.
C15_EverySleepEndsBeforeTheDeadline ==
  [][(Wfc \/ Wfd) =>
       /\ (pc = "poll" /\ ~FoundMatch) =>
            IF now + polling_interval <= end_time
              THEN pc' = "sleep" /\ outcome' = "none"
              ELSE pc' = "done" /\ outcome' \in TimeoutErrors
       /\ pc' = "sleep" => (pc = "poll" /\ now + polling_interval <= end_time)
       /\ pc = "sleep" =>
            /\ now + polling_interval <= end_time
            /\ now' = now + lastSleep'
            /\ now' <= end_time
       /\ polling_interval > timeout =>
            /\ nSleep' = 0 /\ pc' # "sleep"
            /\ nFetch' <= 1
            /\ pc' = "done" => nFetch' = 1]_vars

\* a wait that slept for a second, polled again and then raised its timeout
\* error, still inside the deadline
C15_Witness ==
  /\ Wfc \/ Wfd
  /\ nSleep >= 1 /\ lastSleep = Seconds(1)
  /\ outcome \in TimeoutErrors
  /\ now <= end_time /\ now + polling_interval > end_time

\* C16: in both loops the duration handed to time.sleep is the
\* polling_interval that the deadline check of the same iteration used.
C16_SleepsForThePollingInterval ==
  [][((Wfc \/ Wfd) /\ pc = "sleep") =>
       /\ lastSleep' = polling_interval
       /\ now' = now + polling_interval]_vars

(***************************************************************************)
(* The retry budget of terminate_replica (C17)                             *)
(***************************************************************************)
\* the least a budget "on the order of one minute" can be: a tenth of it
AboutAMinute == Seconds(60) \div 10

\* C17: terminate_replica goes on retrying, ten milliseconds after every
\* failed send, until a send succeeds or a budget on the order of one minute
\* since the first attempt is spent; only then does the last failure
\* propagate.
C17_GivesUpOnlyAfterAboutAMinute ==
  /\ pc = "tr_backoff" => outcome = "none"
  /\ (outcome = "SendError" /\ failedStep = "send") =>
       now - attempt_start >= AboutAMinute

(***************************************************************************)
(* The latency bound of the fetches (C18)                                  *)
(***************************************************************************)
\* C18: in both polling loops the fetch is latency-bounded: no wait is ever
\* inside a fetch that nothing brings to an end.
C18_EveryFetchIsLatencyBounded ==
  (Wfc \/ Wfd) => pc # "blocked"

(***************************************************************************)
(* job_succeeded (C19)                                                     *)
(***************************************************************************)
Js == fn = "job_succeeded"

\* the last condition of the job is one of type 'succeeded', in any case
LastIsSucceeded(tfjob) ==
  /\ tfjob.st = "list"
  /\ Len(tfjob.conds) > 0
  /\ tfjob.conds[Len(tfjob.conds)] \in SucceededSpellings

C20_RestartIsVerifiedUnderEveryInterleaving ==
  (/\ Tv /\ args.expect_restart
   /\ outcome = "returned"
   /\ pod.phase = "Running" /\ pod.restarts = 1) =>
    /\ passed
    /\ restart_time # first_start_time

====
